---- MODULE Spec2Model ----
(***************************************************************************)
(* Model of venue_trend.py: load_projections, generate_venue_projection,  *)
(* consolidate_projections, save_to_excel and main.                       *)
(*                                                                         *)
(* Data representation                                                     *)
(*   Timestamp   [year, month]; every date in the program is a month      *)
(*               start (strptime without a day gives day 1, freq='MS').   *)
(*   cell        <<n>> for the number n, <<>> for NaN.                     *)
(*   DataFrame   [columns, nrows, Date, MonthYear, data]: the column names*)
(*               in order, the length of the RangeIndex, the two calendar *)
(*               columns and, per metric column, its cells by row.        *)
(*   template    [hasMetric, months, index, value]: whether the 'Metric'  *)
(*               column exists, the set of i with a column "Month i", the  *)
(*               metric names in row order (unique) and the cells.         *)
(*   date text   <<month text, separator, year text>>.                     *)
(***************************************************************************)
EXTENDS Integers, Sequences, FiniteSets, TLC

\* ------------------------------------------------------------------ bounds
MaxDuration == 3
MaxVenues == 2
MaxWindow == 4

\* ------------------------------------------------------------------ cells
NaN == <<>>
Num(n) == <<n>>
IsNaN(c) == c = NaN
Val(c) == c[1]

\* ------------------------------------------------- datetime.strptime tables
OneDigitMonths == <<"1", "2", "3", "4", "5", "6", "7", "8", "9">>
TwoDigitMonths ==
    <<"01", "02", "03", "04", "05", "06", "07", "08", "09", "10", "11", "12">>
month_abbr ==
    <<"jan", "feb", "mar", "apr", "may", "jun", "jul", "aug", "sep", "oct", "nov", "dec">>
month_name ==
    <<"january", "february", "march", "april", "may", "june", "july", "august",
      "september", "october", "november", "december">>
MonthAbbrTitle ==
    <<"Jan", "Feb", "Mar", "Apr", "May", "Jun", "Jul", "Aug", "Sep", "Oct", "Nov", "Dec">>
FourDigitYears == [t \in {"2024", "2025", "2026"} |->
    CASE t = "2024" -> 2024 [] t = "2025" -> 2025 [] t = "2026" -> 2026]

\* str.lower() on the month texts the model uses (names match case-insensitively)
Lower(t) ==
    CASE t = "Jan" -> "jan" [] t = "Feb" -> "feb" [] t = "Dec" -> "dec"
      [] t = "May" -> "may" [] t = "DEC" -> "dec"
      [] t = "January" -> "january" [] t = "February" -> "february"
      [] t = "December" -> "december"
      [] OTHER -> t

IndexOf(seq, x) ==
    IF \E j \in 1..Len(seq) : seq[j] = x
    THEN CHOOSE j \in 1..Len(seq) : seq[j] = x
    ELSE 0

\* The month a directive reads from the month text, 0 when its pattern does
\* not match: %m is 1[0-2]|0[1-9]|[1-9], %b and %B look the lowered text up.
DirectiveMonth(directive, t) ==
    CASE directive = "%m" ->
            IF IndexOf(TwoDigitMonths, t) # 0 THEN IndexOf(TwoDigitMonths, t)
            ELSE IndexOf(OneDigitMonths, t)
      [] directive = "%b" -> IndexOf(month_abbr, Lower(t))
      [] directive = "%B" -> IndexOf(month_name, Lower(t))

\* datetime.strptime(s, fmt) for fmt = directive sep %Y; ok = FALSE is ValueError
Strptime(s, fmt) ==
    LET m == DirectiveMonth(fmt.directive, s[1])
    IN  IF m # 0 /\ s[2] = fmt.sep /\ s[3] \in DOMAIN FourDigitYears
        THEN [ok |-> TRUE, date |-> [year |-> FourDigitYears[s[3]], month |-> m]]
        ELSE [ok |-> FALSE, date |-> [year |-> 0, month |-> 0]]

FmtMY == [directive |-> "%m", sep |-> "-"]
FmtMSlashY == [directive |-> "%m", sep |-> "/"]
FmtbY == [directive |-> "%b", sep |-> "-"]
FmtBY == [directive |-> "%B", sep |-> "-"]

\* the nested try/except of generate_venue_projection
ParseStartDate(start_date_str) ==
    IF Strptime(start_date_str, FmtMY).ok THEN Strptime(start_date_str, FmtMY)
    ELSE IF Strptime(start_date_str, FmtMSlashY).ok
         THEN Strptime(start_date_str, FmtMSlashY)
    ELSE IF Strptime(start_date_str, FmtbY).ok THEN Strptime(start_date_str, FmtbY)
    ELSE Strptime(start_date_str, FmtBY)

\* ------------------------------------------------ relativedelta, date_range
\* relativedelta(months=n) after _fix: whole years split off, sign kept
RelYears(n) == IF n >= 0 THEN n \div 12 ELSE -((-n) \div 12)
RelMonths(n) == IF n >= 0 THEN n % 12 ELSE -((-n) % 12)

\* AddMonths with the month wrapped into 1..12 and the year carry left out
AddMonthsNoCarry(dt, n) ==
    LET y == dt.year + RelYears(n)
        m == dt.month + RelMonths(n)
    IN  [year |-> y, month |-> ((m - 1) % 12) + 1]

\* dt + relativedelta(months=n)
AddMonths(dt, n) ==
    LET y == dt.year + RelYears(n)
        m == dt.month + RelMonths(n)
    IN  IF m > 12 THEN [year |-> y + 1, month |-> m - 12]
        ELSE IF m < 1 THEN [year |-> y - 1, month |-> m + 12]
        ELSE [year |-> y, month |-> m]

DateLE(a, b) == a.year < b.year \/ (a.year = b.year /\ a.month <= b.month)

\* the MonthBegin offset applied to a month start
NextMonthStart(dt) ==
    IF dt.month = 12 THEN [year |-> dt.year + 1, month |-> 1]
    ELSE [year |-> dt.year, month |-> dt.month + 1]

RECURSIVE DateRange(_, _)
\* pd.date_range(start=start, end=end, freq='MS')
DateRange(start, end) ==
    IF DateLE(start, end)
    THEN <<start>> \o DateRange(NextMonthStart(start), end)
    ELSE <<>>

\* Timestamp.strftime('%b-%Y')
Strftime(dt) == <<MonthAbbrTitle[dt.month], dt.year>>

\* ------------------------------------------------------------- DataFrames
EmptyDataFrame ==
    [columns |-> <<>>, nrows |-> 0, Date |-> <<>>, MonthYear |-> <<>>, data |-> <<>>]

InColumns(name, df) == \E j \in 1..Len(df.columns) : df.columns[j] = name

\* DataFrame.empty: some axis has length 0
IsEmpty(df) == Len(df.columns) = 0 \/ df.nrows = 0

\* df[name] = c for a new column name: every row gets the cell c
WithColumn(df, name, c) ==
    [df EXCEPT !.columns = Append(@, name),
               !.data = [k \in (DOMAIN @) \cup {name} |->
                            IF k = name THEN [r \in 1..df.nrows |-> c] ELSE @[k]]]

\* df.loc[row - 1, name] = c (rows are numbered from 1 in the model)
SetCell(df, row, name, c) == [df EXCEPT !.data[name][row] = c]

\* pd.DataFrame({'Date': dates}) followed by the 'Month-Year' assignment
CalendarFrame(dates) ==
    [columns |-> <<"Date", "Month-Year">>,
     nrows |-> Len(dates),
     Date |-> dates,
     MonthYear |-> [r \in 1..Len(dates) |-> Strftime(dates[r])],
     data |-> <<>>]

\* --------------------------------------------- generate_venue_projection
\* TemplateCell with 0 written for a relative month the template lacks
TemplateCellZero(base_projection, metric, i) ==
    IF i \in base_projection.months
    THEN base_projection.value[metric][i]
    ELSE Num(0)

\* the value written for a metric at relative month i: the template's cell
\* when the column "Month i" exists (lines 93-94), np.nan otherwise (line 107)
TemplateCell(base_projection, metric, i) ==
    IF i \in base_projection.months
    THEN base_projection.value[metric][i]
    ELSE NaN

RECURSIVE FillMonth(_, _, _, _)
\* lines 93-107 for one i: the metrics of the template from row j on
FillMonth(venue_projection, base_projection, i, j) ==
    IF j > Len(base_projection.index) THEN venue_projection
    ELSE
      LET metric == base_projection.index[j]
          value == TemplateCell(base_projection, metric, i)
          vp1 == IF ~InColumns(metric, venue_projection)
                 THEN WithColumn(venue_projection, metric, NaN)
                 ELSE venue_projection
          vp2 == IF i - 1 < vp1.nrows THEN SetCell(vp1, i, metric, value) ELSE vp1
      IN  FillMonth(vp2, base_projection, i, j + 1)

RECURSIVE FillMonths(_, _, _, _)
\* for i in range(i, num_months + 1)
FillMonths(venue_projection, base_projection, i, num_months) ==
    IF i > num_months THEN venue_projection
    ELSE FillMonths(FillMonth(venue_projection, base_projection, i, 1),
                    base_projection, i + 1, num_months)

\* end_date and date_range of lines 80-81
VenueDateRange(start_date, num_months) ==
    DateRange(start_date, AddMonths(start_date, num_months - 1))

\* raised = TRUE is the ValueError of line 78; otherwise ret is the table
generate_venue_projection(start_date_str, base_projection, num_months) ==
    LET parsed == ParseStartDate(start_date_str)
    IN  IF ~parsed.ok THEN [raised |-> TRUE, ret |-> EmptyDataFrame]
        ELSE IF ~base_projection.hasMetric
             THEN [raised |-> FALSE, ret |-> EmptyDataFrame]
        ELSE [raised |-> FALSE,
              ret |-> FillMonths(CalendarFrame(VenueDateRange(parsed.date, num_months)),
                                 base_projection, 1, num_months)]

\* ------------------------------------------------ consolidate_projections
\* name.lower() as its characters, for the column names of the program
LowerChars(name) ==
    CASE name = "Revenue" -> <<"r", "e", "v", "e", "n", "u", "e">>
      [] name = "Cost" -> <<"c", "o", "s", "t">>
      [] name = "Total Cost" -> <<"t", "o", "t", "a", "l", " ", "c", "o", "s", "t">>
      [] name = "Date" -> <<"d", "a", "t", "e">>
      [] name = "Month-Year" -> <<"m", "o", "n", "t", "h", "-", "y", "e", "a", "r">>

SuffixChars(suffix) ==
    CASE suffix = "_x" -> <<"_", "x">> [] suffix = "_y" -> <<"_", "y">> [] OTHER -> <<>>

\* a in b, on character sequences
IsSubstring(a, b) ==
    \E s \in 0..(Len(b) - Len(a)) : SubSeq(b, s + 1, s + Len(a)) = a

\* the test of line 137: metric.lower() in col.lower()
MetricInColumn(metric, col) ==
    IsSubstring(LowerChars(metric), LowerChars(col.name) \o SuffixChars(col.suffix))

\* a set of column names as a list; the order of set iteration is not
\* specified and nothing below depends on it
RECURSIVE SetToSeq(_)
SetToSeq(S) ==
    IF S = {} THEN <<>>
    ELSE LET x == CHOOSE x \in S : TRUE IN <<x>> \o SetToSeq(S \ {x})

NonKeyColumns(df) == SelectSeq(df.columns, LAMBDA c : c # "Date")

\* lines 123-128, for one venue
VenueMetrics(venue_data) ==
    IF ~IsEmpty(venue_data) /\ InColumns("Metric", venue_data)
    THEN {venue_data.data["Metric"][r] : r \in 1..venue_data.nrows}
    ELSE {venue_data.columns[j] : j \in 1..Len(venue_data.columns)}
             \ {"Date", "Month-Year"}

\* lines 121-128
AllMetrics(venues_data) ==
    UNION {VenueMetrics(venues_data[j]) : j \in 1..Len(venues_data)}

RECURSIVE WithZeroColumns(_, _)
\* lines 130-131
WithZeroColumns(df, metrics) ==
    IF Len(metrics) = 0 THEN df
    ELSE WithZeroColumns(WithColumn(df, Head(metrics), Num(0)), Tail(metrics))

\* lines 118-131
ConsolidatedInit(all_dates, all_metrics) ==
    WithZeroColumns(CalendarFrame(all_dates), SetToSeq(all_metrics))

\* MatchRow with the frames joined on their row index instead of on 'Date'
MatchRowByPosition(consolidated, venue_data, r) ==
    IF r <= venue_data.nrows THEN r ELSE 0

\* on='Date', how='left': the row of venue_data joined to row r of
\* consolidated, 0 when none has that Date (a venue's dates are distinct)
MatchRow(consolidated, venue_data, r) ==
    IF \E q \in 1..venue_data.nrows : venue_data.Date[q] = consolidated.Date[r]
    THEN CHOOSE q \in 1..venue_data.nrows : venue_data.Date[q] = consolidated.Date[r]
    ELSE 0

\* the columns of pd.merge(consolidated, venue_data, on='Date', how='left')
\* besides the key: a name on both sides gets the suffixes _x and _y
MergedColumns(consolidated, venue_data) ==
    LET left == NonKeyColumns(consolidated)
        right == NonKeyColumns(venue_data)
    IN  [j \in 1..Len(left) |->
            [name |-> left[j], side |-> "left",
             suffix |-> IF InColumns(left[j], venue_data) THEN "_x" ELSE ""]]
        \o
        [j \in 1..Len(right) |->
            [name |-> right[j], side |-> "right",
             suffix |-> IF InColumns(right[j], consolidated) THEN "_y" ELSE ""]]

\* the cell of a metric column of the merged frame at row r
MergedCell(consolidated, venue_data, col, r) ==
    IF col.side = "left" THEN consolidated.data[col.name][r]
    ELSE LET q == MatchRow(consolidated, venue_data, r)
         IN  IF q = 0 THEN NaN ELSE venue_data.data[col.name][q]

RECURSIVE SumSkipNa(_)
\* [count, total] of the cells that are not NaN
SumSkipNa(cells) ==
    IF Len(cells) = 0 THEN [count |-> 0, total |-> 0]
    ELSE LET rest == SumSkipNa(Tail(cells))
         IN  IF IsNaN(Head(cells)) THEN rest
             ELSE [count |-> rest.count + 1, total |-> rest.total + Val(Head(cells))]

\* .sum(axis=1, min_count=1) on one row
RowSum(cells) ==
    LET s == SumSkipNa(cells)
    IN  IF s.count < 1 THEN NaN ELSE Num(s.total)

\* .fillna(0)
Fillna0(c) == IF IsNaN(c) THEN Num(0) ELSE c

\* float addition of two cells
CellAdd(a, b) == IF IsNaN(a) \/ IsNaN(b) THEN NaN ELSE Num(Val(a) + Val(b))

\* AddedCell as a plain sum: no skipping of NaN, no fillna
AddedCellNoFill(cells) ==
    IF \E j \in 1..Len(cells) : IsNaN(cells[j]) THEN NaN
    ELSE Num(SumSkipNa(cells).total)

\* line 139: .sum(axis=1, min_count=1).fillna(0) on one row
AddedCell(cells) == Fillna0(RowSum(cells))

\* line 137
MatchingCols(merged_columns, metric) ==
    SelectSeq(merged_columns, LAMBDA col : MetricInColumn(metric, col))

\* lines 134-139: one venue folded into the running total; merged is
\* computed once, before any metric of this venue is added
FoldVenue(consolidated, venue_data, all_metrics) ==
    IF IsEmpty(venue_data) THEN consolidated
    ELSE
      LET merged_columns == MergedColumns(consolidated, venue_data)
          Added(metric, r) ==
              LET matching_cols == MatchingCols(merged_columns, metric)
              IN  AddedCell([j \in 1..Len(matching_cols) |->
                      MergedCell(consolidated, venue_data, matching_cols[j], r)])
      IN  [consolidated EXCEPT !.data =
              [k \in DOMAIN @ |->
                  IF k \in all_metrics /\ Len(MatchingCols(merged_columns, k)) > 0
                  THEN [r \in 1..consolidated.nrows |-> CellAdd(@[k][r], Added(k, r))]
                  ELSE @[k]]]

\* line 141: consolidated.drop(columns=['Date'])
DropDate(df) == [df EXCEPT !.columns = NonKeyColumns(df), !.Date = <<>>]

\* line 116: pd.DataFrame({'Month-Year': pd.to_datetime([])})
EmptyMonthYearFrame ==
    [columns |-> <<"Month-Year">>, nrows |-> 0, Date |-> <<>>, MonthYear |-> <<>>,
     data |-> <<>>]

RECURSIVE FoldVenues(_, _, _, _)
\* the loop of lines 133-139 from venue j on
FoldVenues(consolidated, venues_data, all_metrics, j) ==
    IF j > Len(venues_data) THEN consolidated
    ELSE FoldVenues(FoldVenue(consolidated, venues_data[j], all_metrics),
                    venues_data, all_metrics, j + 1)

consolidate_projections(venues_data, all_dates) ==
    IF Len(venues_data) = 0 THEN EmptyMonthYearFrame
    ELSE DropDate(FoldVenues(ConsolidatedInit(all_dates, AllMetrics(venues_data)),
                             venues_data, AllMetrics(venues_data), 1))

\* ------------------------------------------------------------------ inputs
TemplateRC ==
    [hasMetric |-> TRUE, months |-> 1..3, index |-> <<"Revenue", "Cost">>,
     value |-> [k \in {"Revenue", "Cost"} |->
                  IF k = "Revenue" THEN <<Num(100), Num(200), Num(300)>>
                  ELSE <<Num(50), Num(60), Num(70)>>]]
TemplateCT ==
    [hasMetric |-> TRUE, months |-> 1..2, index |-> <<"Cost", "Total Cost">>,
     value |-> [k \in {"Cost", "Total Cost"} |->
                  IF k = "Cost" THEN <<Num(10), NaN>> ELSE <<Num(1), Num(2)>>]]
TemplateR ==
    [hasMetric |-> TRUE, months |-> 1..1, index |-> <<"Revenue">>,
     value |-> [k \in {"Revenue"} |-> <<Num(5)>>]]
TemplateNoRows ==
    [hasMetric |-> TRUE, months |-> 1..2, index |-> <<>>, value |-> <<>>]
TemplateNoMetric ==
    [hasMetric |-> FALSE, months |-> 1..2, index |-> <<>>, value |-> <<>>]

Templates == {TemplateRC, TemplateCT, TemplateR, TemplateNoRows, TemplateNoMetric}

\* start date texts: the four accepted forms, and texts in none of them
StartDateTexts ==
    {<<"12", "-", "2024">>, <<"01", "-", "2025">>, <<"1", "-", "2025">>,
     <<"11", "/", "2024">>, <<"Dec", "-", "2024">>, <<"DEC", "-", "2025">>,
     <<"May", "-", "2025">>, <<"February", "-", "2025">>,
     <<"13", "-", "2025">>, <<"Feb", "/", "2025">>, <<"01", "-", "25">>,
     <<"Sept", "-", "2025">>}

\* the venues and windows offered to consolidate_projections
VenueTemplates == {TemplateRC, TemplateCT, TemplateNoMetric}
VenueStartTexts == {<<"01", "-", "2025">>, <<"Feb", "-", "2025">>}
WindowStarts ==
    {[year |-> 2024, month |-> 12], [year |-> 2025, month |-> 1],
     [year |-> 2025, month |-> 2]}

\* ------------------------------------------------------------------- state
VARIABLES
    gen,                    \* the last call of generate_venue_projection
    cpc,                    \* position in consolidate_projections
    venues_data, all_dates, all_metrics, consolidated, vi, result,
    pc,                     \* position in main
    entered,                \* what main has read from input() so far
    projections, sport, num_venues, i, venues_data_with_period,
    all_start_dates, max_projection_period, consolidated_projection,
    saved                   \* the calls of save_to_excel

genVars == <<gen>>
consVars == <<cpc, venues_data, all_dates, all_metrics, consolidated, vi, result>>
mainVars == <<pc, entered, projections, sport, num_venues, i,
              venues_data_with_period, all_start_dates, max_projection_period,
              consolidated_projection, saved>>
vars == <<genVars, consVars, mainVars>>

NoCall ==
    [called |-> FALSE, start_date_str |-> <<"", "", "">>,
     base_projection |-> TemplateNoMetric, num_months |-> 0,
     out |-> [raised |-> FALSE, ret |-> EmptyDataFrame]]

NothingEntered ==
    [file |-> <<>>, sport |-> <<>>, num_venues |-> <<>>, venues |-> <<>>,
     overall |-> <<>>]

Init ==
    /\ gen = NoCall
    /\ cpc = "collect"
    /\ venues_data = <<>>
    /\ all_dates = <<>>
    /\ all_metrics = {}
    /\ consolidated = EmptyDataFrame
    /\ vi = 0
    /\ result = EmptyDataFrame
    /\ pc = "load"
    /\ entered = NothingEntered
    /\ projections = <<>>
    /\ sport = ""
    /\ num_venues = 0
    /\ i = 0
    /\ venues_data_with_period = <<>>
    /\ all_start_dates = <<>>
    /\ max_projection_period = 0
    /\ consolidated_projection = EmptyDataFrame
    /\ saved = <<>>

\* ------------------------------------- calls of generate_venue_projection
GenerateCall ==
    \E s \in StartDateTexts, tpl \in Templates, n \in 1..MaxDuration :
        /\ gen' = [called |-> TRUE, start_date_str |-> s, base_projection |-> tpl,
                   num_months |-> n, out |-> generate_venue_projection(s, tpl, n)]
        /\ UNCHANGED <<consVars, mainVars>>

NextGen == GenerateCall

SpecGen == Init /\ [][NextGen]_vars

\* ------------------------- venues generated, then consolidated over a window
\* one more venue projection, as returned by generate_venue_projection
AddVenue ==
    /\ cpc = "collect"
    /\ Len(venues_data) < MaxVenues
    /\ \E s \in VenueStartTexts, tpl \in VenueTemplates, n \in 1..MaxDuration :
          LET out == generate_venue_projection(s, tpl, n)
          IN  /\ ~out.raised
              /\ venues_data' = Append(venues_data, out.ret)
    /\ UNCHANGED <<cpc, all_dates, all_metrics, consolidated, vi, result>>
    /\ UNCHANGED <<genVars, mainVars>>

\* consolidate_projections is entered: lines 115-131
ConsolidateEnter ==
    /\ cpc = "collect"
    /\ \E start \in WindowStarts, n \in 1..MaxWindow :
          all_dates' = DateRange(start, AddMonths(start, n - 1))
    /\ IF Len(venues_data) = 0
       THEN /\ result' = EmptyMonthYearFrame
            /\ cpc' = "returned"
            /\ UNCHANGED <<all_metrics, consolidated, vi>>
       ELSE /\ all_metrics' = AllMetrics(venues_data)
            /\ consolidated' = ConsolidatedInit(all_dates', AllMetrics(venues_data))
            /\ vi' = 1
            /\ cpc' = "fold"
            /\ UNCHANGED result
    /\ UNCHANGED venues_data
    /\ UNCHANGED <<genVars, mainVars>>

\* one iteration of the loop of lines 133-139
ConsolidateFold ==
    /\ cpc = "fold"
    /\ vi <= Len(venues_data)
    /\ consolidated' = FoldVenue(consolidated, venues_data[vi], all_metrics)
    /\ vi' = vi + 1
    /\ UNCHANGED <<cpc, venues_data, all_dates, all_metrics, result>>
    /\ UNCHANGED <<genVars, mainVars>>

\* line 141
ConsolidateReturn ==
    /\ cpc = "fold"
    /\ vi > Len(venues_data)
    /\ result' = DropDate(consolidated)
    /\ cpc' = "returned"
    /\ UNCHANGED <<venues_data, all_dates, all_metrics, consolidated, vi>>
    /\ UNCHANGED <<genVars, mainVars>>

Next == AddVenue \/ ConsolidateEnter \/ ConsolidateFold \/ ConsolidateReturn

Spec == Init /\ [][Next]_vars

\* -------------------------------------------------------- load_projections
sports == <<"badminton", "football", "pickleball">>

\* a sheet as read by pd.read_excel: its shape, whether reading it raises,
\* its first column (the metric names) and its "Month i" columns
SheetOf(tpl, nrows, ncols, raises) ==
    [nrows |-> nrows, ncols |-> ncols, raises |-> raises,
     metrics |-> tpl.index, months |-> tpl.months, value |-> tpl.value]

FileUnreadable == [readable |-> FALSE, sheets |-> <<>>]
FileNoSport ==
    [readable |-> TRUE, sheets |-> [n \in {"Sheet1"} |-> SheetOf(TemplateRC, 2, 4, FALSE)]]
FileSports ==
    [readable |-> TRUE,
     sheets |-> [n \in {"badminton", "football", "pickleball"} |->
        CASE n = "badminton" -> SheetOf(TemplateRC, 2, 4, FALSE)
          [] n = "football" -> SheetOf(TemplateR, 1, 1, FALSE)
          [] n = "pickleball" -> SheetOf(TemplateCT, 2, 3, FALSE)]]
Files == {FileUnreadable, FileNoSport, FileSports}

\* line 32: not raw_data.empty and len(raw_data.columns) > 1
SheetUsable(raw) == ~(raw.nrows = 0 \/ raw.ncols = 0) /\ raw.ncols > 1

\* lines 33-39: the first column becomes the 'Metric' column
SportData(raw) ==
    [hasMetric |-> TRUE, months |-> raw.months, index |-> raw.metrics,
     value |-> raw.value]

\* the dict returned, <<>> for None
load_projections(file) ==
    IF ~file.readable THEN <<>>
    ELSE LET loaded == {sports[j] : j \in
                          {j \in 1..Len(sports) :
                              /\ sports[j] \in DOMAIN file.sheets
                              /\ ~file.sheets[sports[j]].raises
                              /\ SheetUsable(file.sheets[sports[j]])}}
         IN  [sp \in loaded |-> SportData(file.sheets[sp])]

\* ----------------------------------------------------------- save_to_excel
\* the workbook written, sheet by sheet; ok = FALSE when writing raised
save_to_excel(venue_projections, consolidated_proj, sport_name, io_ok) ==
    IF ~io_ok THEN [ok |-> FALSE, sheets |-> <<>>]
    ELSE [ok |-> TRUE,
          sheets |->
            [j \in 1..Len(venue_projections) |->
                [name |-> <<"Venue", j, venue_projections[j].period>>,
                 table |-> venue_projections[j].data]]
            \o (IF ~IsEmpty(consolidated_proj)
                THEN <<[name |-> <<"Consolidated", 0, 0>>, table |-> consolidated_proj]>>
                ELSE <<>>)]

\* -------------------------------------------------------------------- main
\* what input() returns, as int() sees it: ValueError when isInt is FALSE
NotInt == [isInt |-> FALSE, n |-> 0]
IntText(n) == [isInt |-> TRUE, n |-> n]

SportTexts == {"Badminton", "pickleball", "football", "tennis"}
\* str.lower() on the sport texts
SportLower(t) == IF t = "Badminton" THEN "badminton" ELSE t

MainStartTexts ==
    {<<"01", "-", "2025">>, <<"12", "-", "2024">>, <<"02", "/", "2025">>,
     <<"Feb", "-", "2025">>, <<"February", "-", "2025">>, <<"13", "-", "2025">>}

\* line 187
NumVenuesRejected(n) == n <= 0
\* line 202
ProjectionPeriodRejected(n) == n <= 0
\* OverallPeriodRejected with the comparison < in place of <=
OverallPeriodRejectedNegOnly(n) == n < 0

\* line 233
OverallPeriodRejected(n) == n <= 0

\* min(all_start_dates)
MinDate(dates) ==
    CHOOSE d \in {dates[j] : j \in 1..Len(dates)} :
        \A j \in 1..Len(dates) : DateLE(d, dates[j])

Max(a, b) == IF a >= b THEN a ELSE b

\* lines 173-178
MainLoad ==
    /\ pc = "load"
    /\ \E file \in Files :
          /\ entered' = [entered EXCEPT !.file = <<file>>]
          /\ projections' = load_projections(file)
          /\ pc' = IF DOMAIN load_projections(file) = {} THEN "aborted" ELSE "sport"
    /\ UNCHANGED <<sport, num_venues, i, venues_data_with_period, all_start_dates,
                   max_projection_period, consolidated_projection, saved>>
    /\ UNCHANGED <<genVars, consVars>>

\* lines 180-183
MainSport ==
    /\ pc = "sport"
    /\ \E t \in SportTexts :
          /\ entered' = [entered EXCEPT !.sport = <<t>>]
          /\ sport' = SportLower(t)
          /\ pc' = IF SportLower(t) \notin DOMAIN projections THEN "aborted"
                   ELSE "num_venues"
    /\ UNCHANGED <<projections, num_venues, i, venues_data_with_period,
                   all_start_dates, max_projection_period, consolidated_projection,
                   saved>>
    /\ UNCHANGED <<genVars, consVars>>

\* lines 185-196
MainNumVenues ==
    /\ pc = "num_venues"
    /\ \E inp \in {NotInt} \cup {IntText(n) : n \in 0..MaxVenues} :
          /\ entered' = [entered EXCEPT !.num_venues = <<inp>>]
          /\ IF ~inp.isInt \/ NumVenuesRejected(inp.n)
             THEN pc' = "aborted" /\ UNCHANGED num_venues
             ELSE pc' = "venues" /\ num_venues' = inp.n
    /\ UNCHANGED <<projections, sport, i, venues_data_with_period, all_start_dates,
                   max_projection_period, consolidated_projection, saved>>
    /\ UNCHANGED <<genVars, consVars>>

\* one iteration of the loop of lines 198-224
MainVenue ==
    /\ pc = "venues"
    /\ i < num_venues
    /\ \E start_date \in MainStartTexts,
          inp \in {NotInt} \cup {IntText(n) : n \in 0..MaxDuration} :
          /\ entered' = [entered EXCEPT
                            !.venues = Append(@, [start |-> start_date, period |-> inp])]
          /\ IF ~inp.isInt \/ ProjectionPeriodRejected(inp.n)
             THEN /\ pc' = "aborted"
                  /\ UNCHANGED <<i, venues_data_with_period, all_start_dates,
                                 max_projection_period>>
             ELSE
               LET out == generate_venue_projection(start_date, projections[sport], inp.n)
                   start_date_dt == Strptime(start_date, FmtMY)
               IN  IF out.raised
                   THEN /\ pc' = "aborted"
                        /\ UNCHANGED <<i, venues_data_with_period, all_start_dates,
                                       max_projection_period>>
                   ELSE IF IsEmpty(out.ret)
                   THEN /\ i' = i + 1
                        /\ UNCHANGED <<pc, venues_data_with_period, all_start_dates,
                                       max_projection_period>>
                   ELSE /\ venues_data_with_period' =
                              Append(venues_data_with_period,
                                     [data |-> out.ret, period |-> inp.n])
                        /\ IF ~start_date_dt.ok
                           THEN /\ pc' = "aborted"
                                /\ UNCHANGED <<i, all_start_dates, max_projection_period>>
                           ELSE /\ all_start_dates' =
                                      Append(all_start_dates, start_date_dt.date)
                                /\ max_projection_period' =
                                      Max(max_projection_period, inp.n)
                                /\ i' = i + 1
                                /\ UNCHANGED pc
    /\ UNCHANGED <<projections, sport, num_venues, consolidated_projection, saved>>
    /\ UNCHANGED <<genVars, consVars>>

\* lines 226-251, and the summary that ends the run
MainConsolidateAndSave ==
    /\ pc = "venues"
    /\ i >= num_venues
    /\ IF Len(venues_data_with_period) = 0
       THEN /\ pc' = "aborted"
            /\ UNCHANGED <<entered, consolidated_projection, saved>>
       ELSE \E inp \in {NotInt} \cup {IntText(n) : n \in 0..MaxWindow},
               io_ok \in BOOLEAN :
          /\ entered' = [entered EXCEPT !.overall = <<inp>>]
          /\ IF ~inp.isInt \/ OverallPeriodRejected(inp.n)
             THEN /\ pc' = "aborted"
                  /\ UNCHANGED <<consolidated_projection, saved>>
             ELSE
               LET datas == [j \in 1..Len(venues_data_with_period) |->
                                venues_data_with_period[j].data]
                   earliest_start == MinDate(all_start_dates)
                   consolidated_date_range ==
                       DateRange(earliest_start, AddMonths(earliest_start, inp.n - 1))
                   cp == IF Len(all_start_dates) > 0
                         THEN consolidate_projections(datas, consolidated_date_range)
                         ELSE EmptyDataFrame
               IN  /\ consolidated_projection' = cp
                   /\ saved' = Append(saved,
                          [venue_projections |-> venues_data_with_period,
                           consolidated_projection |-> cp,
                           sport |-> sport,
                           written |-> save_to_excel(venues_data_with_period, cp,
                                                     sport, io_ok)])
                   /\ pc' = "done"
    /\ UNCHANGED <<projections, sport, num_venues, i, venues_data_with_period,
                   all_start_dates, max_projection_period>>
    /\ UNCHANGED <<genVars, consVars>>

NextMain ==
    MainLoad \/ MainSport \/ MainNumVenues \/ MainVenue \/ MainConsolidateAndSave

SpecMain == Init /\ [][NextMain]_vars

\* ============================================================ properties
\* months counted on one axis, for stating what the calendar should be
MonthIdx(d) == d.year * 12 + d.month

\* the calendar month each well-formed start date text of the model names
\* (one of MM-YYYY, MM/YYYY, Mon-YYYY, Month-YYYY); <<>> for the others
NamedMonth(s) ==
    CASE s = <<"12", "-", "2024">> -> <<[year |-> 2024, month |-> 12]>>
      [] s = <<"01", "-", "2025">> -> <<[year |-> 2025, month |-> 1]>>
      [] s = <<"1", "-", "2025">> -> <<[year |-> 2025, month |-> 1]>>
      [] s = <<"11", "/", "2024">> -> <<[year |-> 2024, month |-> 11]>>
      [] s = <<"02", "/", "2025">> -> <<[year |-> 2025, month |-> 2]>>
      [] s = <<"Dec", "-", "2024">> -> <<[year |-> 2024, month |-> 12]>>
      [] s = <<"DEC", "-", "2025">> -> <<[year |-> 2025, month |-> 12]>>
      [] s = <<"Feb", "-", "2025">> -> <<[year |-> 2025, month |-> 2]>>
      [] s = <<"May", "-", "2025">> -> <<[year |-> 2025, month |-> 5]>>
      [] s = <<"February", "-", "2025">> -> <<[year |-> 2025, month |-> 2]>>
      [] OTHER -> <<>>
WellFormed(s) == NamedMonth(s) # <<>>

\* ---- generate_venue_projection
GenOnMetricTemplate ==
    /\ gen.called
    /\ gen.base_projection.hasMetric
    /\ WellFormed(gen.start_date_str)

\* C3: for a template with a Metric column, a well-formed start month and a
\* duration >= 1, the returned table has exactly `duration` rows, whose
\* calendar months are consecutive (also across December to January) and
\* begin at the start month.
C3_ConsecutiveMonths ==
    GenOnMetricTemplate =>
        LET ret == gen.out.ret
            n == gen.num_months
        IN  /\ ~gen.out.raised
            /\ ret.nrows = n
            /\ Len(ret.Date) = n
            /\ ret.Date[1] = NamedMonth(gen.start_date_str)[1]
            /\ \A r \in 1..n : ret.Date[r].month \in 1..12
            /\ \A r \in 1..(n - 1) : MonthIdx(ret.Date[r + 1]) = MonthIdx(ret.Date[r]) + 1
            /\ \A r \in 1..n :
                  ret.MonthYear[r] = <<MonthAbbrTitle[ret.Date[r].month], ret.Date[r].year>>

C3_Witness ==
    /\ GenOnMetricTemplate
    /\ gen.num_months >= 2
    /\ gen.out.ret.nrows >= 2
    /\ gen.out.ret.Date[1].month = 12
    /\ gen.out.ret.Date[2].month = 1

\* C4: for a template with K relative months, the cell of every metric at
\* calendar month start + i - 1 is the template's value at relative month i
\* when i <= K and the unknown sentinel (NaN, not zero) when i > K.
C4_ValuesAnchored ==
    (GenOnMetricTemplate /\ ~gen.out.raised) =>
        LET ret == gen.out.ret
            tpl == gen.base_projection
            K == Cardinality(tpl.months)
            start == NamedMonth(gen.start_date_str)[1]
        IN  \A j \in 1..Len(tpl.index) : \A r \in 1..gen.num_months :
               /\ tpl.index[j] \in DOMAIN ret.data
               /\ r <= ret.nrows
               /\ MonthIdx(ret.Date[r]) = MonthIdx(start) + r - 1
               /\ ret.data[tpl.index[j]][r] =
                     (IF r <= K THEN tpl.value[tpl.index[j]][r] ELSE NaN)

C4_Witness ==
    /\ GenOnMetricTemplate
    /\ ~gen.out.raised
    /\ Len(gen.base_projection.index) > 0
    /\ gen.num_months > Cardinality(gen.base_projection.months)
    /\ \E k \in DOMAIN gen.out.ret.data :
          /\ gen.out.ret.data[k][1] # NaN
          /\ gen.out.ret.data[k][gen.num_months] = NaN

\* C10: a template with its Metric column but no metrics is a usage error:
\* generate_venue_projection does not return a table for it.
C10_EmptyTemplateRejected ==
    (GenOnMetricTemplate /\ Len(gen.base_projection.index) = 0) => gen.out.raised

\* ---- consolidate_projections
\* the value of venue v for metric k at month m, unknown or absent as 0
VenueValue(v, k, m) ==
    IF k \in DOMAIN v.data
       /\ \E q \in 1..Len(v.Date) : v.Date[q] = m /\ v.data[k][q] # NaN
    THEN LET q == CHOOSE q \in 1..Len(v.Date) : v.Date[q] = m IN v.data[k][q][1]
    ELSE 0

RECURSIVE SumOverVenues(_, _, _, _)
SumOverVenues(vs, k, m, j) ==
    IF j > Len(vs) THEN 0
    ELSE VenueValue(vs[j], k, m) + SumOverVenues(vs, k, m, j + 1)

UnionOfMetrics(vs) == UNION {DOMAIN vs[j].data : j \in 1..Len(vs)}

Covered(vs, m) == \E j \in 1..Len(vs) : \E q \in 1..Len(vs[j].Date) : vs[j].Date[q] = m

Returned == cpc = "returned" /\ Len(venues_data) > 0

\* C1: every consolidated value for (k, m) is the sum over the venues whose
\* span contains m of the venue's value for k at m, unknown or absent as 0.
C1_Additivity ==
    Returned =>
        \A k \in UnionOfMetrics(venues_data) : \A r \in 1..Len(all_dates) :
            /\ k \in DOMAIN result.data
            /\ r <= result.nrows
            /\ result.data[k][r] = Num(SumOverVenues(venues_data, k, all_dates[r], 1))

\* the inputs that differ from vs only in venue j's values for metric k2
OtherMetricVariants(vs, j, k2) ==
    {[vs EXCEPT ![j].data[k2] = [r \in 1..vs[j].nrows |-> c]] :
        c \in {Num(0), Num(7), NaN}}

\* C2: the consolidated values of a metric k depend only on the venues'
\* values for the metric named exactly k: changing a venue's values for
\* another metric leaves them as they are.
C2_ExactKey ==
    Returned =>
        \A k \in UnionOfMetrics(venues_data) : \A j \in 1..Len(venues_data) :
            \A k2 \in (DOMAIN venues_data[j].data) \ {k} :
                \A alt \in OtherMetricVariants(venues_data, j, k2) :
                    consolidate_projections(alt, all_dates).data[k] = result.data[k]

\* C5: the consolidated table has one row per month of the window, in
\* window order, and a window month outside every venue's span has the
\* value 0 for every metric.
C5_WindowIndependence ==
    Returned =>
        /\ result.nrows = Len(all_dates)
        /\ ~InColumns("Date", result)
        /\ InColumns("Month-Year", result)
        /\ Len(result.MonthYear) = Len(all_dates)
        /\ \A r \in 1..Len(all_dates) :
              result.MonthYear[r] = <<MonthAbbrTitle[all_dates[r].month], all_dates[r].year>>
        /\ \A k \in UnionOfMetrics(venues_data) : k \in DOMAIN result.data
        /\ \A r \in 1..Len(all_dates) :
              ~Covered(venues_data, all_dates[r]) =>
                  \A k \in DOMAIN result.data : result.data[k][r] = Num(0)

C5_Witness ==
    /\ Returned
    /\ Len(venues_data) >= 2
    /\ \E r \in 1..Len(all_dates) : ~Covered(venues_data, all_dates[r])
    /\ \E r \in 1..Len(all_dates) : \E k \in DOMAIN result.data :
          Covered(venues_data, all_dates[r]) /\ result.data[k][r] # Num(0)
    /\ \E j \in 1..Len(venues_data) : \E q \in 1..Len(venues_data[j].Date) :
          \A r \in 1..Len(all_dates) : all_dates[r] # venues_data[j].Date[q]

AllNumbers(df) ==
    \A k \in DOMAIN df.data : \A r \in 1..Len(df.data[k]) : df.data[k][r] # NaN

\* C6: no cell of the consolidated table is ever unknown (NaN), after each
\* venue is folded into the running total and in the table returned.
C6_NeverUnknown ==
    /\ cpc = "fold" => AllNumbers(consolidated)
    /\ cpc = "returned" => AllNumbers(result)

C6_Witness ==
    /\ cpc = "fold"
    /\ vi > 1
    /\ vi <= Len(venues_data)
    /\ \E k \in DOMAIN venues_data[vi - 1].data :
          \E q \in 1..venues_data[vi - 1].nrows :
              /\ venues_data[vi - 1].data[k][q] = NaN
              /\ \E r \in 1..Len(all_dates) : all_dates[r] = venues_data[vi - 1].Date[q]

\* C7: with no venues and a non-empty window the returned table has one row
\* per window month and no metric columns.
C7_EmptyVenuesOverWindow ==
    (cpc = "returned" /\ Len(venues_data) = 0 /\ Len(all_dates) > 0) =>
        /\ result.nrows = Len(all_dates)
        /\ Len(result.MonthYear) = Len(all_dates)
        /\ \A r \in 1..Len(all_dates) :
              result.MonthYear[r] = <<MonthAbbrTitle[all_dates[r].month], all_dates[r].year>>
        /\ DOMAIN result.data = {}

\* ---- main
\* the sports whose templates each file of the model yields
LoadableSports(file) ==
    IF file = FileSports THEN {"badminton", "pickleball"} ELSE {}

\* the category each sport text names
NamedSport(t) ==
    CASE t = "Badminton" -> "badminton" [] t = "pickleball" -> "pickleball"
      [] t = "football" -> "football" [] OTHER -> "none"

PositiveInt(inp) == inp.isInt /\ inp.n > 0

\* an unrecoverable input error among the inputs read so far
InputError ==
    \/ \E j \in 1..Len(entered.file) : LoadableSports(entered.file[j]) = {}
    \/ \E j \in 1..Len(entered.sport) :
          NamedSport(entered.sport[j]) \notin LoadableSports(entered.file[1])
    \/ \E j \in 1..Len(entered.num_venues) : ~PositiveInt(entered.num_venues[j])
    \/ \E j \in 1..Len(entered.venues) :
          \/ ~PositiveInt(entered.venues[j].period)
          \/ ~WellFormed(entered.venues[j].start)
    \/ \E j \in 1..Len(entered.overall) : ~PositiveInt(entered.overall[j])

\* C8: a run of main that hits an unrecoverable input error, or aborts,
\* never calls save_to_excel, whatever venues were processed before.
C8_NoArtifactOnAbort ==
    (InputError \/ pc = "aborted") => saved = <<>>

C8_Witness ==
    /\ pc = "aborted"
    /\ InputError
    /\ Len(venues_data_with_period) >= 1
    /\ Len(all_start_dates) >= 1
    /\ saved = <<>>

\* C9: a venue start date in any of the four forms MM-YYYY, MM/YYYY,
\* Mon-YYYY, Month-YYYY, with a positive duration, is accepted: its
\* projection is generated, its start month is recorded for the choice of
\* the window's start, and the run does not abort at that venue.
C9_FourFormsAccepted ==
    \A j \in 1..Len(entered.venues) :
        (WellFormed(entered.venues[j].start) /\ PositiveInt(entered.venues[j].period)) =>
            /\ ~(pc = "aborted" /\ j = Len(entered.venues) /\ entered.overall = <<>>)
            /\ Len(venues_data_with_period) >= j
            /\ Len(all_start_dates) >= j
            /\ all_start_dates[j] = NamedMonth(entered.venues[j].start)[1]

====
